---- MODULE Spec2Model ----
(***************************************************************************)
(* MagicStreamMovies session authentication.                               *)
(*                                                                         *)
(* Part I  (ClientSpec): the axios response interceptor installed by       *)
(*   useAxiosPrivate (Client/movie/src/hooks/useAxiosPrivate.jsx): the     *)
(*   isRefreshing flag, the failedQueue and the renewal call of every      *)
(*   hook instance of one browser session.                                 *)
(* Part II (ServerSpec): token minting and validation (utils/token_util.go),*)
(*   the AuthMiddleware, and the login / refresh / logout handlers         *)
(*   (controllers/user_controller.go), with the browser's cookie jar.      *)
(***************************************************************************)
EXTENDS Integers, Sequences, FiniteSets, TLC

\* ------------------------------------------------------------------ bounds
NumRequests == 2
NumInstances == 2

Requests == 1..NumRequests
Instances == 1..NumInstances

\* ------------------------------------------------------------- client state
VARIABLES
    isRefreshing,   \* [Instances -> BOOLEAN]        useAxiosPrivate.jsx:40
    failedQueue,    \* [Instances -> Seq(call)]      useAxiosPrivate.jsx:43
    req,            \* [Requests -> request record]  the calls made through axiosAuth
    renewal,        \* [Instances -> record]         the POST /refresh of line 106
    refreshCalls,   \* [Instances -> Nat]            POST /refresh calls sent
    accessValid,    \* the browser holds an access_token cookie the server accepts
    refreshValid,   \* the browser holds a refresh_token cookie the server accepts
    auth            \* the local identity cache (localStorage "user" and AuthContext)

clientVars == <<isRefreshing, failedQueue, req, renewal, refreshCalls,
                accessValid, refreshValid, auth>>

\* ------------------------------------------------------------- server state
VARIABLES
    SECRET_KEY,          \* token_util.go:30
    SECRET_REFRESH_KEY,  \* token_util.go:31
    ENV,                 \* os.Getenv("ENV")
    host,                \* the host name the browser reaches the server under
    now,                 \* time.Now(), in seconds
    users,               \* the "users" collection, by user_id
    issued,              \* every pair minted so far, in order
    jar,                 \* the browser's cookies for the server
    loggedOut,           \* the access credentials issued before an answered logout
    movies,              \* the "movies" collection, by imdb_id
    minted,              \* the last call of GenerateAllTokens and what it returned
    resp                 \* the last request and its response

serverVars == <<SECRET_KEY, SECRET_REFRESH_KEY, ENV, host, now, users, issued,
                jar, loggedOut, movies, minted, resp>>

vars == <<clientVars, serverVars>>

\* The call a failedQueue entry stands for: a request, or the renewal call itself.
RefreshCall == 0

RefreshUrl == "/refresh"
AdminUrl == "/updatereview"
Urls == {"/recommendedmovies", AdminUrl}
\* The logged-in principal is an ordinary user (Register.jsx: defaultRole).
PrincipalRole == "USER"

NoResponse == 0
Statuses == {200, 401, 500, NoResponse}

\* A call made through axiosAuth: its config (url, _retry), the access
\* credential its last transmission carried, and its history (first: it was
\* first sent before any renewal of its instance had settled; firstCred: the
\* credential its first transmission carried).
NewRequest ==
    [st |-> "new", inst |-> 0, url |-> "", retry |-> FALSE, cred |-> FALSE,
     first |-> FALSE, firstCred |-> FALSE, got401 |-> FALSE, last |-> NoResponse,
     sends |-> 0, parks |-> 0, outcome |-> "none"]

NoRenewal == [st |-> "none", orig |-> 0, cred |-> FALSE, last |-> NoResponse]

\* The renewal call of a hook instance once it has settled with status s.
Settled(s) == [NoRenewal EXCEPT !.last = s]

\* originalRequest.url.includes("/refresh")
UrlIncludesRefresh(url) == url = RefreshUrl

\* What the server answers to a protected request that carries the access
\* credential `cred` (valid or not): AuthMiddleware answers 401 for an invalid
\* one, AdminReviewUpdate answers 401 unless the role is ADMIN.
ProtectedStatus(cred, url) ==
    IF ~cred THEN 401
    ELSE IF url = AdminUrl /\ PrincipalRole # "ADMIN" THEN 401
    ELSE 200

\* What the server answers to POST /refresh carrying the refresh credential.
RefreshStatus(cred) == IF cred THEN 200 ELSE 401

\* --- the error interceptor's decision -----------------------------------
InterceptorDecision_NoRetryCheck(url, status, retry, refreshing) ==
    IF UrlIncludesRefresh(url) /\ status = 401 THEN "reject"
    ELSE IF status = 401
         THEN IF refreshing THEN "park" ELSE "renew"
         ELSE "reject"

InterceptorDecision_ParksWhenIdle(url, status, retry, refreshing) ==
    IF UrlIncludesRefresh(url) /\ (status = NoResponse \/ status = 401)
    THEN "reject"
    ELSE IF status # NoResponse /\ status = 401 /\ ~retry
         THEN IF refreshing \/ url = AdminUrl THEN "park" ELSE "renew"
         ELSE "reject"

InterceptorDecision_NoRefreshCase(url, status, retry, refreshing) ==
    IF status = 401 /\ ~retry
    THEN IF refreshing THEN "park" ELSE "renew"
    ELSE "reject"

\* The branch the interceptor takes for a failed call: the refresh call that
\* fails with 401 (or has no response at all, where reading
\* error.response.status throws) is rejected; a 401 without the _retry marker
\* is parked while isRefreshing and starts the renewal otherwise; everything
\* else is rejected.
InterceptorDecision(url, status, retry, refreshing) ==
    IF UrlIncludesRefresh(url) /\ (status = NoResponse \/ status = 401)
    THEN "reject"
    ELSE IF status # NoResponse /\ status = 401 /\ ~retry
         THEN IF refreshing THEN "park" ELSE "renew"
         ELSE "reject"

Range(q) == {q[k] : k \in 1..Len(q)}

Replayed_Twice(r, rq) ==
    [rq[r] EXCEPT !.st = "inflight", !.cred = TRUE, !.sends = @ + 2]

\* axiosAuth(originalRequest): the request is sent once more, with the cookies
\* the renewal has just set.
Replayed(r, rq) ==
    [rq[r] EXCEPT !.st = "inflight", !.cred = TRUE, !.sends = @ + 1]

processQueue_KeepsOnError(i, error, rq) ==
    [r \in Requests |->
        IF r \in Range(failedQueue[i]) /\ ~error THEN Replayed(r, rq) ELSE rq[r]]

\* processQueue: every continuation of the queue is rejected with the
\* renewal's error, or resolved, which replays its request (line 95) with the
\* cookies the renewal has just set.
processQueue(i, error, rq) ==
    [r \in Requests |->
        IF r \in Range(failedQueue[i])
        THEN IF error
             THEN [rq[r] EXCEPT !.st = "rejected", !.outcome = "refresh"]
             ELSE Replayed(r, rq)
        ELSE rq[r]]

ClientInit ==
    /\ isRefreshing = [i \in Instances |-> FALSE]
    /\ failedQueue = [i \in Instances |-> <<>>]
    /\ req = [r \in Requests |-> NewRequest]
    /\ renewal = [i \in Instances |-> NoRenewal]
    /\ refreshCalls = [i \in Instances |-> 0]
    /\ accessValid \in BOOLEAN
    /\ refreshValid \in BOOLEAN
    /\ auth = TRUE

\* No renewal of instance i has settled so far.
NoneSettled(i) ==
    refreshCalls[i] = 0 \/ (refreshCalls[i] = 1 /\ renewal[i].st = "inflight")

\* A component calls axiosAuth(config) on the instance its hook returned.
\* Requests are numbered in the order of their first transmission and hook
\* instances in the order of their first use.
Send(r, i, u) ==
    /\ req[r].st = "new"
    /\ \A q \in Requests : q < r => req[q].st # "new"
    /\ \A j \in Instances : j < i => \E q \in Requests : req[q].inst = j
    /\ req' = [req EXCEPT ![r] = [@ EXCEPT !.st = "inflight", !.inst = i,
                                           !.url = u, !.cred = accessValid,
                                           !.first = NoneSettled(i),
                                           !.firstCred = accessValid,
                                           !.sends = 1]]
    /\ UNCHANGED <<isRefreshing, failedQueue, renewal, refreshCalls,
                   accessValid, refreshValid, auth>>
    /\ UNCHANGED serverVars

\* The response of request r arrives with status s and runs the interceptors.
Deliver(r, s) ==
    /\ req[r].st = "inflight"
    /\ s \in {ProtectedStatus(req[r].cred, req[r].url), 500, NoResponse}
    /\ LET i == req[r].inst
           d == InterceptorDecision(req[r].url, s, req[r].retry, isRefreshing[i])
           seen == [req[r] EXCEPT !.got401 = @ \/ (s = 401), !.last = s]
       IN  IF s = 200
           THEN /\ req' = [req EXCEPT ![r] = [seen EXCEPT !.st = "resolved",
                                                         !.outcome = "ok"]]
                /\ UNCHANGED <<isRefreshing, failedQueue, renewal, refreshCalls>>
           ELSE IF d = "park"
           THEN /\ failedQueue' = [failedQueue EXCEPT ![i] = Append(@, r)]
                /\ req' = [req EXCEPT ![r] = [seen EXCEPT !.st = "parked", !.parks = @ + 1]]
                /\ UNCHANGED <<isRefreshing, renewal, refreshCalls>>
           ELSE IF d = "renew"
           THEN /\ isRefreshing' = [isRefreshing EXCEPT ![i] = TRUE]
                /\ req' = [req EXCEPT ![r] = [seen EXCEPT !.st = "renewing",
                                                         !.retry = TRUE]]
                /\ renewal' = [renewal EXCEPT ![i] =
                                  [st |-> "inflight", orig |-> r, cred |-> refreshValid,
                                   last |-> NoResponse]]
                /\ refreshCalls' = [refreshCalls EXCEPT ![i] = @ + 1]
                /\ UNCHANGED failedQueue
           ELSE /\ req' = [req EXCEPT ![r] = [seen EXCEPT !.st = "rejected",
                                                         !.outcome = "own"]]
                /\ UNCHANGED <<isRefreshing, failedQueue, renewal, refreshCalls>>
    /\ UNCHANGED <<accessValid, refreshValid, auth>>
    /\ UNCHANGED serverVars

\* The response of instance i's POST /refresh arrives with status s.
DeliverRefresh(i, s) ==
    /\ renewal[i].st = "inflight"
    /\ s \in {RefreshStatus(renewal[i].cred), 500, NoResponse}
    /\ LET o == renewal[i].orig
           d == InterceptorDecision(RefreshUrl, s, FALSE, isRefreshing[i])
       IN  IF s = 200
           THEN \* .then: processQueue(null), replay originalRequest; .finally
                /\ req' = [processQueue(i, FALSE, req) EXCEPT ![o] = Replayed(o, req)]
                /\ failedQueue' = [failedQueue EXCEPT ![i] = <<>>]
                /\ isRefreshing' = [isRefreshing EXCEPT ![i] = FALSE]
                /\ renewal' = [renewal EXCEPT ![i] = Settled(s)]
                /\ accessValid' = TRUE
                /\ refreshValid' = TRUE
                /\ UNCHANGED <<refreshCalls, auth>>
           ELSE IF d = "reject"
           THEN \* .catch: processQueue(refreshError), clear auth, reject; .finally
                /\ req' = [processQueue(i, TRUE, req) EXCEPT ![o] =
                              [@ EXCEPT !.st = "rejected", !.outcome = "refresh"]]
                /\ failedQueue' = [failedQueue EXCEPT ![i] = <<>>]
                /\ isRefreshing' = [isRefreshing EXCEPT ![i] = FALSE]
                /\ renewal' = [renewal EXCEPT ![i] = Settled(s)]
                /\ auth' = FALSE
                /\ UNCHANGED <<refreshCalls, accessValid, refreshValid>>
           ELSE IF d = "park"
           THEN \* the refresh call waits in the queue its own settling empties
                /\ failedQueue' = [failedQueue EXCEPT ![i] = Append(@, RefreshCall)]
                /\ renewal' = [renewal EXCEPT ![i] = [@ EXCEPT !.st = "parked", !.last = s]]
                /\ UNCHANGED <<req, isRefreshing, refreshCalls, accessValid,
                               refreshValid, auth>>
           ELSE \* the refresh call starts a renewal of its own
                /\ refreshCalls' = [refreshCalls EXCEPT ![i] = @ + 1]
                /\ renewal' = [renewal EXCEPT ![i] = [@ EXCEPT !.cred = refreshValid, !.last = s]]
                /\ UNCHANGED <<req, failedQueue, isRefreshing, accessValid,
                               refreshValid, auth>>
    /\ UNCHANGED serverVars

ClientNext ==
    \/ \E r \in Requests, i \in Instances, u \in Urls : Send(r, i, u)
    \/ \E r \in Requests, s \in Statuses : Deliver(r, s)
    \/ \E i \in Instances, s \in Statuses : DeliverRefresh(i, s)


\* ============================================================== server side

\* ------------------------------------------------------------------ bounds
MaxIssued == 2

\* time.Hour * 24 and time.Hour * 24 * 7, in seconds
AccessTTL == 86400
RefreshTTL == 604800

\* Cookie MaxAge values
AccessMaxAge == 86400
RefreshMaxAge == 604800

\* The moments the clock is observed at.
Times == {0, AccessTTL - 1, AccessTTL + 1, RefreshTTL + 1}

\* <<SECRET_KEY, SECRET_REFRESH_KEY>> as the process reads them at start: two
\* secrets, the same secret twice, or both variables unset ("").
KeyConfigs == {<<"keyA", "keyB">>, <<"keyA", "keyA">>, <<"", "">>}

\* <<ENV, host>>: a development server on localhost, a production server.
Deployments == {<<"development", "localhost">>, <<"production", "magicstream.example">>}

UserIds == {"u1", "u2"}
MovieIds == {"tt0111161"}
\* The :imdb_id of PATCH /updatereview/:imdb_id requests
ReviewedMovie == "tt0111161"
\* A movie no administrator has reviewed yet.
Unreviewed == [admin_review |-> "", ranking |-> "Not ranked"]
Passwords == {"p", "q"}
Endpoints == {"GetMovie", "AddMovie", "GetRecommendedMovies", "AdminReviewUpdate"}
HMACAlgs == {"HS256", "HS384", "HS512"}

\* bcrypt: the stored hash of a password and its comparison.
HashPassword(pw) == <<"bcrypt", pw>>
CompareHashAndPassword_Always(hash, pw) == TRUE

CompareHashAndPassword(hash, pw) == hash = HashPassword(pw)

\* --- credentials -----------------------------------------------------------
\* A cookie value: absent, the empty string, a string that is no JWT, or a JWT
\* with its header's alg, its claims and its signature.
Bare(kind) ==
    [kind |-> kind, alg |-> "", uid |-> "", role |-> "", iat |-> 0, exp |-> 0,
     sig |-> <<>>]
Missing == Bare("missing")
EmptyString == Bare("empty")
Malformed == Bare("malformed")

\* HMAC of the encoded header and claims under `key`.
Sign(key, alg, uid, r, iat, exp) == <<key, alg, uid, r, iat, exp>>

\* jwt.NewWithClaims(jwt.SigningMethodHS256, claims).SignedString(key):
\* NumericDate values are whole seconds.
SignedString(key, uid, r, iat, exp) ==
    [kind |-> "jwt", alg |-> "HS256", uid |-> uid, role |-> r, iat |-> iat,
     exp |-> exp, sig |-> Sign(key, "HS256", uid, r, iat, exp)]

\* GenerateAllTokens reads time.Now() four times (lines 47, 48, 72, 73):
\* clock is the four readings, in whole seconds as NewNumericDate keeps them.
\* HMAC signing accepts any byte string as the key, the empty one included,
\* so err is never set.
GenerateAllTokens(uid, r, clock) ==
    [token |-> SignedString(SECRET_KEY, uid, r, clock[1], clock[2] + AccessTTL),
     refreshToken |-> SignedString(SECRET_REFRESH_KEY, uid, r, clock[3],
                                   clock[4] + RefreshTTL),
     err |-> FALSE]

\* The readings of a call made while the clock shows `now` throughout.
Served == <<now, now, now, now>>

\* The signing methods the library knows besides the HMAC ones; they take no
\* []byte key.
OtherAlgs == {"none", "RS256"}

ParseWithClaims_AllowsNone(tok, key) ==
    IF tok.kind # "jwt"
        THEN [err |-> "token is malformed", hmac |-> FALSE]
    ELSE IF tok.alg = "none"
        THEN [err |-> "", hmac |-> FALSE]
    ELSE IF tok.alg \notin HMACAlgs
        THEN [err |-> "token is unverifiable", hmac |-> FALSE]
    ELSE IF tok.sig # Sign(key, tok.alg, tok.uid, tok.role, tok.iat, tok.exp)
        THEN [err |-> "signature is invalid", hmac |-> TRUE]
    ELSE IF ~(now < tok.exp)
        THEN [err |-> "token is expired", hmac |-> TRUE]
    ELSE [err |-> "", hmac |-> TRUE]

\* jwt.ParseWithClaims(tokenString, claims, keyFunc) with keyFunc returning
\* []byte(key): the error it returns ("" for none) and whether the parsed
\* token's method is an HMAC one.  A method the library does not know makes
\* the token unverifiable; a known method that is not HMAC refuses the
\* []byte key.
ParseWithClaims(tok, key) ==
    IF tok.kind # "jwt"
        THEN [err |-> "token is malformed", hmac |-> FALSE]
    ELSE IF tok.alg \in OtherAlgs
        THEN [err |-> "signature is invalid", hmac |-> FALSE]
    ELSE IF tok.alg \notin HMACAlgs
        THEN [err |-> "token is unverifiable", hmac |-> FALSE]
    ELSE IF tok.sig # Sign(key, tok.alg, tok.uid, tok.role, tok.iat, tok.exp)
        THEN [err |-> "signature is invalid", hmac |-> TRUE]
    ELSE IF ~(now < tok.exp)
        THEN [err |-> "token is expired", hmac |-> TRUE]
    ELSE [err |-> "", hmac |-> TRUE]

NilClaims == [uid |-> "", role |-> ""]

\* The (claims, err) a validator returns: nilClaims / nilErr say which is nil.
Result(claims, err) ==
    [nilClaims |-> claims = NilClaims, claims |-> claims, nilErr |-> err = "",
     err |-> err]

Validate(tok, key, expiredMsg) ==
    LET p == ParseWithClaims(tok, key) IN
    IF p.err # "" THEN Result(NilClaims, p.err)
    ELSE IF ~p.hmac THEN Result(NilClaims, p.err)
    ELSE IF tok.exp < now THEN Result(NilClaims, expiredMsg)
    ELSE Result([uid |-> tok.uid, role |-> tok.role], "")

ValidateToken_NoExpiry(tok) ==
    IF tok.kind = "jwt" /\ tok.alg \in HMACAlgs
       /\ tok.sig = Sign(SECRET_KEY, tok.alg, tok.uid, tok.role, tok.iat, tok.exp)
    THEN Result([uid |-> tok.uid, role |-> tok.role], "")
    ELSE Result(NilClaims, "token is malformed")

ValidateToken(tok) == Validate(tok, SECRET_KEY, "token expired")

ValidateRefreshToken_NoExpiry(tok) ==
    IF tok.kind = "jwt" /\ tok.alg \in HMACAlgs
       /\ tok.sig = Sign(SECRET_REFRESH_KEY, tok.alg, tok.uid, tok.role, tok.iat, tok.exp)
    THEN Result([uid |-> tok.uid, role |-> tok.role], "")
    ELSE Result(NilClaims, "token is malformed")

ValidateRefreshToken_NoSignature(tok) ==
    IF tok.kind = "jwt" /\ now < tok.exp
    THEN Result([uid |-> tok.uid, role |-> tok.role], "")
    ELSE Result(NilClaims, "token is malformed")

ValidateRefreshToken(tok) ==
    Validate(tok, SECRET_REFRESH_KEY, "refresh token has expired")

\* --- cookies -----------------------------------------------------------------
Cookie(name, value, maxAge, domain, secure, sameSite) ==
    [name |-> name, value |-> value, maxAge |-> maxAge, path |-> "/",
     domain |-> domain, secure |-> secure, httpOnly |-> TRUE,
     sameSite |-> sameSite]

IsProduction == ENV = "production"
sameSiteMode == IF IsProduction THEN "None" ELSE "Lax"
secureFlag == IsProduction

\* The two http.SetCookie calls of LoginUser.
LoginCookies(pair) ==
    << Cookie("access_token", pair.token, AccessMaxAge, "", secureFlag, sameSiteMode),
       Cookie("refresh_token", pair.refreshToken, RefreshMaxAge, "", secureFlag,
              sameSiteMode) >>

\* The two c.SetCookie(name, value, maxAge, "/", "localhost", true, true) calls
\* of RefreshTokenHandler; gin writes the engine's SameSite, which is unset.
RefreshCookies(pair) ==
    << Cookie("access_token", pair.token, AccessMaxAge, "localhost", TRUE, ""),
       Cookie("refresh_token", pair.refreshToken, RefreshMaxAge, "localhost", TRUE, "") >>

\* The two http.SetCookie calls of LogoutHandler.
LogoutCookies ==
    << Cookie("access_token", EmptyString, -1, "", secureFlag, sameSiteMode),
       Cookie("refresh_token", EmptyString, -1, "", secureFlag, sameSiteMode) >>

\* The browser's cookie store (RFC 6265, 5.3): a cookie whose Domain attribute
\* does not match the request host is ignored; a cookie is identified by name,
\* domain and path, where a cookie without a Domain attribute gets the request
\* host; a Max-Age of zero or less removes the cookie it identifies.
\* A stored cookie keeps the attributes it was set with and expires maxAge
\* seconds after it was stored.
CookieDomain(c) == IF c.domain = "" THEN host ELSE c.domain
CookieKey(c) == <<c.name, CookieDomain(c), c.path>>

Store(j, c) ==
    IF CookieDomain(c) # host THEN j
    ELSE LET rest == {x \in j : CookieKey(x.cookie) # CookieKey(c)}
         IN  IF c.maxAge <= 0 THEN rest
             ELSE rest \cup {[cookie |-> c, expires |-> now + c.maxAge]}

RECURSIVE StoreAll(_, _)
StoreAll(j, cs) == IF cs = <<>> THEN j ELSE StoreAll(Store(j, Head(cs)), Tail(cs))

\* The cookies the browser still holds at the present time.
Live == {x \in jar : now < x.expires}

\* c.Cookie(name) as the browser fills it in: the cookie of that name, if any.
JarCookie(name) ==
    IF \E x \in Live : x.cookie.name = name
    THEN (CHOOSE x \in Live : x.cookie.name = name).cookie.value
    ELSE Missing

\* --- the authentication middleware -----------------------------------------
\* utils.GetAccessToken: reads the access_token cookie (the Authorization
\* header code is commented out); err is set when there is no such cookie.
GetAccessToken(cookie) ==
    IF cookie = Missing THEN [token |-> EmptyString, err |-> TRUE]
    ELSE [token |-> cookie, err |-> FALSE]

Abort(status, error) ==
    [status |-> status, error |-> error, next |-> FALSE, userID |-> "", role |-> ""]

AuthMiddleware_SkipsValidation(cookie) ==
    IF cookie.kind # "jwt" THEN Abort(401, "token is required")
    ELSE [status |-> 0, error |-> "", next |-> TRUE, userID |-> cookie.uid,
          role |-> cookie.role]

\* AuthMiddleware: what it answers itself (next = FALSE, after c.Abort()) or
\* the userID and role it sets before c.Next().  A validator returning neither
\* claims nor an error makes claims.UserID panic: the recovery answers 500.
AuthMiddleware(cookie) ==
    LET byCookie == cookie # Missing /\ cookie # EmptyString
        g == GetAccessToken(cookie)
        token == IF byCookie THEN cookie ELSE g.token
        v == ValidateToken(token)
    IN  IF ~byCookie /\ g.err
            THEN Abort(401, "authentication required: no token found in cookie or authorization header")
        ELSE IF token = EmptyString THEN Abort(401, "token is required")
        ELSE IF ~v.nilErr THEN Abort(401, v.err)
        ELSE IF v.nilClaims THEN Abort(500, "panic: nil pointer dereference")
        ELSE [status |-> 0, error |-> "", next |-> TRUE, userID |-> v.claims.uid,
              role |-> v.claims.role]

\* The handler behind the middleware: AdminReviewUpdate answers 401 unless
\* the role in the context is ADMIN; the data access of the handlers is not
\* modelled and answers 200.
HandlerStatus(e, ctxRole) ==
    IF e = "AdminReviewUpdate" /\ ctxRole # "ADMIN" THEN 401 ELSE 200

Handler_AnyRole(e, ctxRole) ==
    IF e = "AdminReviewUpdate"
    THEN [movies EXCEPT ![ReviewedMovie] =
             [admin_review |-> "Great film", ranking |-> "Excellent"]]
    ELSE movies

\* The movies collection after the handler of endpoint e has run with the
\* role ctxRole in its context: AdminReviewUpdate returns before any database
\* call unless the role is ADMIN and otherwise sets admin_review and ranking
\* of the movie named in the URL; the other handlers do not write.
Handler(e, ctxRole) ==
    IF e = "AdminReviewUpdate" /\ ctxRole = "ADMIN"
    THEN [movies EXCEPT ![ReviewedMovie] =
             [admin_review |-> "Great film", ranking |-> "Excellent"]]
    ELSE movies

NoPair == [token |-> Missing, refreshToken |-> Missing, err |-> FALSE]

\* The fields of the JSON body LoginUser writes on success (models.UserResponse
\* with Token and RefreshToken left unassigned).
UserResponse ==
    {"user_id", "first_name", "last_name", "email", "role", "favourite_genres"}

\* No call of GenerateAllTokens has been recorded.
NoMint == [called |-> FALSE, uid |-> "", role |-> "", clock |-> <<0, 0, 0, 0>>,
           pair |-> NoPair]

\* A request and its answer.  email and password are the submitted login
\* data; body is the set of fields of the JSON body: {"error"} for
\* gin.H{"error": ...}, {"message"} for gin.H{"message": ...}.
Response(op, endpoint, cookie, status, error, cookies, handler, userID, r, pair) ==
    [op |-> op, endpoint |-> endpoint, cookie |-> cookie, header |-> Missing,
     email |-> "", password |-> "",
     body |-> IF error # "" THEN {"error"} ELSE {"message"},
     status |-> status, error |-> error, setCookies |-> cookies, handler |-> handler,
     userID |-> userID, role |-> r, pair |-> pair]

\* No request is being answered.
Idle == Response("none", "", Missing, 0, "", <<>>, "", "", "", NoPair)

\* --- what a request can carry ---------------------------------------------
IssuedTokens ==
    {issued[k].token : k \in 1..Len(issued)}
        \cup {issued[k].refreshToken : k \in 1..Len(issued)}

\* A token whose claims were changed after signing.
Tamper(t) == [t EXCEPT !.exp = @ + RefreshTTL]
\* A token re-headed with alg "none" and no signature.
AlgNone(t) == [t EXCEPT !.alg = "none", !.sig = <<>>]
\* A token re-headed with an asymmetric method or with one nobody knows.
Rehead(t, alg) == [t EXCEPT !.alg = alg]

\* The pair minted last: the tokens a tampering client works on.
LastPair ==
    IF issued = <<>> THEN {}
    ELSE {issued[Len(issued)].token, issued[Len(issued)].refreshToken}

Presentable ==
    {Missing, EmptyString, Malformed} \cup IssuedTokens
        \cup {Tamper(t) : t \in LastPair} \cup {AlgNone(t) : t \in LastPair}
        \cup {Rehead(issued[Len(issued)].token, alg) :
                  alg \in IF issued = <<>> THEN {} ELSE {"RS256", "XX"}}

\* The cookie `name` of a request: the browser sends what its jar holds, any
\* other client what it likes.
Carried(src, name) == IF src = "browser" THEN {JarCookie(name)} ELSE Presentable

\* The Authorization header of a request, as the token after "Bearer ": the
\* browser client never sets one (axios is configured with withCredentials
\* only); another client that sends no access_token cookie sets none or the
\* access token minted last.
Authorization(src, cookie) ==
    IF src = "browser" \/ issued = <<>> \/ cookie \notin {Missing, EmptyString}
    THEN {Missing}
    ELSE {Missing, issued[Len(issued)].token}

Received(src, cookies) == IF src = "browser" THEN StoreAll(jar, cookies) ELSE jar

\* --- the handlers -------------------------------------------------------------
\* The users collection as RegisterUser left it: an ordinary user and an
\* administrator, with the bcrypt hash of their password and no token.
Registered ==
    [u \in UserIds |->
        [present |-> TRUE, password |-> HashPassword("p"),
         role |-> IF u = "u1" THEN "USER" ELSE "ADMIN",
         token |-> Missing, refresh_token |-> Missing, updated_at |-> 0]]

ServerInit ==
    /\ \E k \in KeyConfigs : SECRET_KEY = k[1] /\ SECRET_REFRESH_KEY = k[2]
    /\ \E d \in Deployments : ENV = d[1] /\ host = d[2]
    /\ now = 0
    /\ users = Registered
    /\ issued = <<>>
    /\ jar = {}
    /\ loggedOut = {}
    /\ movies = [m \in MovieIds |-> Unreviewed]
    /\ minted = NoMint
    /\ resp = Idle

\* Time passes; the browser drops the cookies whose Max-Age has run out.
\* Time is counted from the first issuance of a pair.
Tick(t) ==
    /\ resp = Idle
    /\ issued # <<>>
    /\ t > now
    /\ now' = t
    /\ jar' = {x \in jar : t < x.expires}
    /\ UNCHANGED <<SECRET_KEY, SECRET_REFRESH_KEY, ENV, host, users, issued,
                   loggedOut, resp>>
    /\ UNCHANGED <<movies, minted>>
    /\ UNCHANGED clientVars

Issue(pair) ==
    Append(issued, [token |-> pair.token, refreshToken |-> pair.refreshToken])

\* POST /login from the browser with the email of user u (found) or an email
\* no user has (~found), and password pw.
LoginUser(u, pw, found) ==
    /\ resp = Idle
    /\ Len(issued) < MaxIssued
    /\ LET pair == GenerateAllTokens(u, users[u].role, Served)
           submitted(answer) ==
               [answer EXCEPT !.email = IF found THEN u ELSE "unknown",
                              !.password = pw]
           fail(status, error) ==
               /\ resp' = submitted(Response("login", "", Missing, status, error, <<>>,
                                             "", "", "", NoPair))
               /\ UNCHANGED <<issued, jar>>
       IN  IF ~(found /\ users[u].present) THEN fail(401, "User not found")
           ELSE IF ~CompareHashAndPassword(users[u].password, pw)
               THEN fail(401, "Invalid password")
           ELSE IF pair.err THEN fail(500, "Error generating tokens")
           ELSE /\ resp' = [submitted(Response("login", "", Missing, 200, "",
                                                LoginCookies(pair), "", u,
                                                users[u].role, pair))
                               EXCEPT !.body = UserResponse]
                /\ issued' = Issue(pair)
                /\ jar' = StoreAll(jar, LoginCookies(pair))
    /\ UNCHANGED <<SECRET_KEY, SECRET_REFRESH_KEY, ENV, host, now, users, loggedOut>>
    /\ UNCHANGED <<movies, minted>>
    /\ UNCHANGED clientVars

\* POST /logout from the browser.
LogoutHandler ==
    /\ resp = Idle
    /\ resp' = Response("logout", "", Missing, 200, "", LogoutCookies, "", "", "", NoPair)
    /\ jar' = StoreAll(jar, LogoutCookies)
    /\ loggedOut' = loggedOut \cup {issued[k].token : k \in 1..Len(issued)}
    /\ UNCHANGED <<SECRET_KEY, SECRET_REFRESH_KEY, ENV, host, now, users, issued>>
    /\ UNCHANGED <<movies, minted>>
    /\ UNCHANGED clientVars

\* POST /refresh from src, carrying `cookie` as refresh_token; db says whether
\* FindOne and UpdateOne succeed.
RefreshTokenHandler(src, db) ==
    /\ resp = Idle
    /\ \E cookie \in Carried(src, "refresh_token") :
       LET v == ValidateRefreshToken(cookie)
           u == v.claims.uid
           pair == GenerateAllTokens(u, users[u].role, Served)
           fail(status, error) ==
               /\ resp' = Response("refresh", "", cookie, status, error, <<>>, "", "", "", NoPair)
               /\ UNCHANGED <<users, issued, jar>>
       IN  IF cookie = Missing
               THEN fail(401, "Unable to retrieve refresh token from cookie")
           ELSE IF v.nilErr /\ v.nilClaims
               THEN fail(500, "panic: nil pointer dereference")
           ELSE IF ~v.nilErr THEN fail(401, "Invalid or expired refresh token")
           ELSE IF ~(db # "FindOne fails" /\ users[u].present)
               THEN fail(401, "User not found")
           ELSE IF db = "UpdateOne fails" THEN fail(500, "Error updating tokens")
           ELSE /\ Len(issued) < MaxIssued
                /\ users' = [users EXCEPT ![u] =
                                [@ EXCEPT !.token = pair.token,
                                          !.refresh_token = pair.refreshToken,
                                          !.updated_at = now]]
                /\ resp' = Response("refresh", "", cookie, 200, "", RefreshCookies(pair),
                                    "", "", "", pair)
                /\ issued' = Issue(pair)
                /\ jar' = Received(src, RefreshCookies(pair))
    /\ UNCHANGED <<SECRET_KEY, SECRET_REFRESH_KEY, ENV, host, now, loggedOut>>
    /\ UNCHANGED <<movies, minted>>
    /\ UNCHANGED clientVars

\* A request from src to protected endpoint e, carrying `cookie` as
\* access_token and `header` as Authorization header.  The middleware is
\* handed the whole request and reads only the cookie.
Protected(src, e) ==
    /\ resp = Idle
    /\ \E cookie \in Carried(src, "access_token") :
       \E header \in Authorization(src, cookie) :
       LET g == AuthMiddleware(cookie)
           answer ==
               IF g.next
               THEN Response("protected", e, cookie, HandlerStatus(e, g.role),
                             IF HandlerStatus(e, g.role) = 401
                                 THEN "Unauthorized access" ELSE "",
                             <<>>, e, g.userID, g.role, NoPair)
               ELSE Response("protected", e, cookie, g.status, g.error, <<>>, "",
                             "", "", NoPair)
       IN  /\ resp' = [answer EXCEPT !.header = header]
           /\ movies' = IF g.next THEN Handler(e, g.role) ELSE movies
    /\ UNCHANGED <<SECRET_KEY, SECRET_REFRESH_KEY, ENV, host, now, users, issued,
                   jar, loggedOut, minted>>
    /\ UNCHANGED clientVars

\* The response has been written and the connection is free again.
Reply ==
    /\ resp # Idle
    /\ resp' = Idle
    /\ UNCHANGED <<SECRET_KEY, SECRET_REFRESH_KEY, ENV, host, now, users, issued,
                   jar, loggedOut>>
    /\ UNCHANGED <<movies, minted>>
    /\ UNCHANGED clientVars

Sources == {"browser", "other"}
DbOutcomes == {"ok", "FindOne fails", "UpdateOne fails"}

ServerNext ==
    \/ \E t \in Times : Tick(t)
    \/ \E u \in UserIds, pw \in Passwords, found \in BOOLEAN : LoginUser(u, pw, found)
    \/ LogoutHandler
    \/ \E src \in Sources, db \in DbOutcomes : RefreshTokenHandler(src, db)
    \/ \E src \in Sources, e \in Endpoints : Protected(src, e)
    \/ Reply

\* --- GenerateAllTokens on its own -----------------------------------------
\* The seconds the clock may advance between two consecutive readings.
MaxSkew == 1

Roles == {"USER", "ADMIN"}

\* The four readings of time.Now() of one call that starts at `now`.
Readings ==
    {<<now, now + a, now + a + b, now + a + b + c>> : a, b, c \in 0..MaxSkew}

\* A call GenerateAllTokens(email, firstName, lastName, role, userId) whose
\* clock readings are `clock`.
Mint(uid, r, clock) ==
    /\ minted' = [called |-> TRUE, uid |-> uid, role |-> r, clock |-> clock,
                  pair |-> GenerateAllTokens(uid, r, clock)]
    /\ UNCHANGED <<SECRET_KEY, SECRET_REFRESH_KEY, ENV, host, now, users, issued,
                   jar, loggedOut, movies, resp>>
    /\ UNCHANGED clientVars

TokenNext ==
    \E uid \in UserIds, r \in Roles, clock \in Readings : Mint(uid, r, clock)

\* ------------------------------------------------------------ specifications
\* The browser session alone, against a server that is not modelled further.
ClientIdle ==
    /\ isRefreshing = [i \in Instances |-> FALSE]
    /\ failedQueue = [i \in Instances |-> <<>>]
    /\ req = [r \in Requests |-> NewRequest]
    /\ renewal = [i \in Instances |-> NoRenewal]
    /\ refreshCalls = [i \in Instances |-> 0]
    /\ accessValid = FALSE
    /\ refreshValid = FALSE
    /\ auth = FALSE

ServerIdle ==
    /\ SECRET_KEY = ""
    /\ SECRET_REFRESH_KEY = ""
    /\ ENV = "development"
    /\ host = "localhost"
    /\ now = 0
    /\ users = <<>>
    /\ issued = <<>>
    /\ jar = {}
    /\ loggedOut = {}
    /\ movies = <<>>
    /\ minted = <<>>
    /\ resp = <<>>

InitClient == ClientInit /\ ServerIdle

\* The token utilities alone: any key configuration, any time of the call.
InitToken ==
    /\ ClientIdle
    /\ \E k \in KeyConfigs : SECRET_KEY = k[1] /\ SECRET_REFRESH_KEY = k[2]
    /\ ENV = "development"
    /\ host = "localhost"
    /\ now \in Times
    /\ users = <<>>
    /\ issued = <<>>
    /\ jar = {}
    /\ loggedOut = {}
    /\ movies = <<>>
    /\ minted = NoMint
    /\ resp = <<>>
InitServer == ServerInit /\ ClientIdle

ClientSpec == InitClient /\ [][ClientNext]_vars

ServerSpec == InitServer /\ [][ServerNext]_vars

TokenSpec == InitToken /\ [][TokenNext]_vars

\* Every network call eventually gets a response.
ClientFairness ==
    /\ \A r \in Requests :
          WF_vars(\E s \in Statuses : Deliver(r, s))
    /\ \A i \in Instances :
          WF_vars(\E s \in Statuses : DeliverRefresh(i, s))

FairClientSpec == ClientSpec /\ ClientFairness

\* ===================================================================== claims
RequestsOf(i) == {r \in Requests : req[r].st # "new" /\ req[r].inst = i}
IsSettled(r) == req[r].st \in {"resolved", "rejected"}

\* The requests sent together through instance i while the access credential
\* is expired: each carried the expired credential and was sent before any
\* renewal of the instance had settled.
ExpiredWave(i) == {r \in RequestsOf(i) : req[r].first /\ ~req[r].cred}

\* The requests of a set whose 401 made the interceptor send POST /refresh.
Renewers(S) == {r \in S : req[r].retry}

\* C1: for the requests sent through one hook instance while the access
\* credential is expired, whatever the order in which their 401 responses and
\* the renewal's response arrive, exactly one POST /refresh is sent: never
\* more than one, and one once they have all settled after a 401.  (Instances
\* with a request that is refused for its role are left aside.)
C1_ExactlyOneRenewal ==
    \A i \in Instances :
        (\A r \in RequestsOf(i) : req[r].url # AdminUrl /\ r \in ExpiredWave(i))
        => /\ refreshCalls[i] <= 1
           /\ Cardinality(Renewers(ExpiredWave(i))) <= 1
           /\ ((\A r \in ExpiredWave(i) : IsSettled(r))
                  /\ (\E r \in ExpiredWave(i) : req[r].got401)
               => refreshCalls[i] = 1)

\* C2: at every moment at most one POST /refresh is in flight in the session,
\* counting all hook instances, and a renewal in flight holds its instance's
\* isRefreshing gate.
C2_OneRenewalPerSession ==
    /\ Cardinality({i \in Instances : renewal[i].st = "inflight"}) <= 1
    /\ \A i \in Instances : renewal[i].st = "inflight" => isRefreshing[i]

\* A parked request leaves the queue only in the step that settles the renewal
\* of its instance: rejected with the renewal's error when the renewal failed
\* (its originator is rejected), replayed when it succeeded.
C3_ParkedStep ==
    \A r \in Requests :
        (req[r].st = "parked" /\ req'[r].st # "parked") =>
            LET i == req[r].inst
                o == renewal[i].orig
            IN  /\ renewal[i].st = "inflight" /\ renewal'[i].st = "none"
                /\ isRefreshing[i] /\ ~isRefreshing'[i]
                /\ \/ /\ renewal'[i].last # 200
                      /\ req'[o].st = "rejected"
                      /\ req'[r].st = "rejected" /\ req'[r].outcome = "refresh"
                   \/ /\ renewal'[i].last = 200
                      /\ req'[o].st = "inflight"
                      /\ req'[r].st = "inflight" /\ req'[r].sends = req[r].sends + 1

\* C3: when every network call gets a response, every request that received a
\* 401 (it started the renewal or was parked) eventually settles, and a parked
\* request moves only when the renewal in flight settles, as C3_ParkedStep says.
C3_EveryRequestSettles ==
    /\ [][C3_ParkedStep]_vars
    /\ \A r \in Requests : req[r].got401 ~> IsSettled(r)

C3_Witness ==
    \E r \in Requests :
        req[r].parks > 0 /\ req[r].st = "resolved" /\ req[r].sends = 2

\* C4: a request carrying the _retry marker whose response is another 401 is
\* rejected to its caller with that error; no renewal starts, nothing is
\* parked, and isRefreshing, failedQueue and the renewal are left as they were.
C4_RetryRejected ==
    [][\A r \in Requests :
          (req[r].st = "inflight" /\ req[r].retry
              /\ req'[r].st # "inflight" /\ req'[r].last = 401)
          => /\ req'[r].st = "rejected" /\ req'[r].outcome = "own"
             /\ UNCHANGED <<isRefreshing, failedQueue, renewal, refreshCalls>>]_vars

C4_Witness ==
    \E r \in Requests :
        /\ req[r].retry /\ req[r].sends = 2 /\ req[r].last = 401
        /\ req[r].st = "rejected" /\ req[r].outcome = "own"

\* C10: when the response of the POST /refresh call itself is a 401, the
\* interceptor starts no renewal for it and does not park it: the renewal
\* settles as failed and its caller (the originating request) is rejected with
\* that error.
C10_RefreshFailurePropagates ==
    [][\A i \in Instances :
          (renewal[i].st = "inflight" /\ renewal'[i] # renewal[i]
              /\ renewal'[i].last = 401)
          => /\ renewal'[i].st = "none"
             /\ refreshCalls' = refreshCalls
             /\ RefreshCall \notin Range(failedQueue'[i])
             /\ req'[renewal[i].orig].st = "rejected"
             /\ req'[renewal[i].orig].outcome = "refresh"]_vars

C10_Witness ==
    \E i \in Instances, r \in Requests :
        /\ renewal[i].st = "none" /\ renewal[i].last = 401
        /\ req[r].inst = i /\ req[r].retry
        /\ req[r].st = "rejected" /\ req[r].outcome = "refresh"

\* The step in which the POST /refresh of instance i settles.
RenewalSettles(i) == renewal[i].st = "inflight" /\ renewal'[i].st = "none"

\* C11: when the renewal succeeds, every request waiting in failedQueue is
\* sent again exactly once, the originating request is sent again exactly
\* once and carries _retry, failedQueue becomes empty and isRefreshing false.
C11_SuccessReplaysOnce ==
    [][\A i \in Instances :
          (RenewalSettles(i) /\ renewal'[i].last = 200)
          => LET o == renewal[i].orig IN
             /\ \A r \in Range(failedQueue[i]) :
                   /\ req[r].st = "parked" /\ req'[r].st = "inflight"
                   /\ req'[r].sends = req[r].sends + 1
             /\ req[o].st = "renewing" /\ req'[o].st = "inflight"
             /\ req'[o].sends = req[o].sends + 1
             /\ req'[o].retry
             /\ \A r \in Requests \ (Range(failedQueue[i]) \cup {o}) :
                   req'[r] = req[r]
             /\ failedQueue'[i] = <<>>
             /\ ~isRefreshing'[i]]_vars

C11_Witness ==
    \E i \in Instances, o, r \in Requests :
        /\ renewal[i].st = "none" /\ renewal[i].last = 200
        /\ failedQueue[i] = <<>> /\ ~isRefreshing[i]
        /\ req[o].inst = i /\ req[o].retry /\ req[o].st = "inflight" /\ req[o].sends = 2
        /\ req[r].inst = i /\ req[r].parks = 1 /\ ~req[r].retry
        /\ req[r].st = "inflight" /\ req[r].sends = 2

\* C12: when the renewal fails, every request waiting in failedQueue is
\* rejected with the renewal's error and so is the originating request, none
\* of them is sent again, the stored user and the auth state are cleared,
\* failedQueue becomes empty and isRefreshing false.
C12_FailureRejectsAll ==
    [][\A i \in Instances :
          (RenewalSettles(i) /\ renewal'[i].last # 200)
          => LET o == renewal[i].orig IN
             /\ \A r \in Range(failedQueue[i]) \cup {o} :
                   /\ req'[r].st = "rejected" /\ req'[r].outcome = "refresh"
                   /\ req'[r].sends = req[r].sends
             /\ \A r \in Requests \ (Range(failedQueue[i]) \cup {o}) :
                   req'[r] = req[r]
             /\ ~auth'
             /\ failedQueue'[i] = <<>>
             /\ ~isRefreshing'[i]]_vars

C12_Witness ==
    \E i \in Instances, o, r \in Requests :
        /\ renewal[i].st = "none" /\ renewal[i].last = 401
        /\ failedQueue[i] = <<>> /\ ~isRefreshing[i] /\ ~auth
        /\ req[o].inst = i /\ req[o].retry /\ req[o].st = "rejected"
        /\ req[o].outcome = "refresh" /\ req[o].sends = 1
        /\ req[r].inst = i /\ req[r].parks = 1 /\ req[r].st = "rejected"
        /\ req[r].outcome = "refresh" /\ req[r].sends = 1

\* A request for the administrators' endpoint whose first transmission
\* carried a valid access credential: the server refuses it for its role.
RoleDenied(r) ==
    req[r].st # "new" /\ req[r].url = AdminUrl /\ req[r].firstCred

\* C24: a request carrying a valid access credential that is answered 401 for
\* its role makes the interceptor send POST /refresh once and is sent again
\* exactly once; the 401 of that replay rejects it to the caller, with no
\* further renewal or replay.
C24_RoleDeniedOneCycle ==
    \A r \in Requests :
        RoleDenied(r) =>
            /\ req[r].sends <= 2
            /\ (req[r].sends = 2 /\ req[r].last = 401 /\ req[r].st # "inflight")
                  => /\ req[r].st = "rejected" /\ req[r].outcome = "own"
                     /\ req[r].retry
            /\ (IsSettled(r) /\ RequestsOf(req[r].inst) = {r}
                     /\ req[r].outcome = "own" /\ req[r].last = 401)
                  => refreshCalls[req[r].inst] = 1

\* C26: failedQueue of a hook instance is non-empty only while its POST
\* /refresh is in flight and isRefreshing is true, and the requests waiting
\* are exactly the entries of the queue: once the renewal has settled the
\* queue is empty and no request is left waiting.
C26_QueueOnlyWhileRefreshing ==
    /\ \A i \in Instances :
          failedQueue[i] # <<>> =>
              /\ isRefreshing[i] /\ renewal[i].st = "inflight"
              /\ \A r \in Range(failedQueue[i]) :
                    r \in Requests /\ req[r].st = "parked" /\ req[r].inst = i
    /\ \A r \in Requests :
          req[r].st = "parked" =>
              /\ isRefreshing[req[r].inst]
              /\ r \in Range(failedQueue[req[r].inst])

C26_Witness ==
    \E i \in Instances, r \in Requests :
        /\ req[r].inst = i /\ req[r].parks = 1 /\ req[r].st = "rejected"
        /\ req[r].outcome = "refresh"
        /\ renewal[i].st = "none" /\ refreshCalls[i] = 1
        /\ failedQueue[i] = <<>> /\ ~isRefreshing[i]

\* The POST /refresh calls of instance i are one per request of i that
\* carries the _retry marker, so never more than its requests, and a request
\* is sent at most once more than there are requests: once first, once after
\* each renewal of another request it waited for, once after its own.
C27_Bounds ==
    \A i \in Instances :
        /\ refreshCalls[i] = Cardinality(Renewers(RequestsOf(i)))
        /\ refreshCalls[i] <= Cardinality(RequestsOf(i))
        /\ \A r \in RequestsOf(i) :
              /\ req[r].parks < Cardinality(RequestsOf(i))
              /\ req[r].sends <= req[r].parks + (IF req[r].retry THEN 2 ELSE 1)
              /\ req[r].sends <= Cardinality(RequestsOf(i)) + 1

\* C27: for the requests made through one hook instance, also when every
\* request and every replay is answered 401, each request starts at most one
\* POST /refresh, the POST /refresh calls are never more than the requests,
\* and every request that was sent settles after a bounded number of replays,
\* the requests that waited in failedQueue and were replayed without _retry
\* included.
C27_RenewalsBoundedAndSettle ==
    /\ []C27_Bounds
    /\ \A r \in Requests : (req[r].st # "new") ~> IsSettled(r)

C27_Witness ==
    \E r \in Requests :
        /\ req[r].url = AdminUrl /\ req[r].firstCred
        /\ req[r].parks = 1 /\ req[r].retry /\ req[r].sends = 3
        /\ req[r].st = "rejected" /\ req[r].outcome = "own" /\ req[r].last = 401
        /\ refreshCalls[req[r].inst] = 2

\* --- server ---------------------------------------------------------------
Signed(c, key) ==
    c.kind = "jwt" /\ c.sig = Sign(key, c.alg, c.uid, c.role, c.iat, c.exp)

\* Absent, empty, no JWT, not signed with `key`, or past its expiry.
BadCredential(c, key) ==
    c.kind # "jwt" \/ ~Signed(c, key) \/ c.exp < now

\* C5: the handler of a protected endpoint runs only for a request whose
\* access credential is a JWT signed with SECRET_KEY and not expired, and then
\* the user_id and role of its context are those of the credential; for a
\* missing, empty, malformed, badly signed or expired credential the answer is
\* 401 and no handler runs.
C5_HandlerOnlyBehindGate ==
    resp.op = "protected" =>
        /\ resp.handler # "" =>
              /\ ~BadCredential(resp.cookie, SECRET_KEY)
              /\ resp.handler = resp.endpoint
              /\ resp.userID = resp.cookie.uid
              /\ resp.role = resp.cookie.role
        /\ BadCredential(resp.cookie, SECRET_KEY) =>
              resp.status = 401 /\ resp.handler = ""

C5_Witness ==
    /\ resp.op = "protected" /\ resp.handler = "AdminReviewUpdate"
    /\ resp.status = 200 /\ resp.userID = "u2" /\ resp.role = "ADMIN"

AccessTokens == {issued[k].token : k \in 1..Len(issued)}
RefreshTokens == {issued[k].refreshToken : k \in 1..Len(issued)}

\* C13: a protected request without an access_token cookie whose
\* Authorization header carries a valid, unexpired access credential is
\* admitted; the "no token found" 401 is given only when the request has
\* neither the cookie nor the header.
C13_BearerHeaderAdmitted ==
    resp.op = "protected" =>
        /\ (resp.cookie = Missing /\ ~BadCredential(resp.header, SECRET_KEY))
              => resp.handler # ""
        /\ (resp.status = 401 /\ resp.handler = "" /\ resp.cookie = Missing)
              => resp.header = Missing

\* C6: in every key configuration no access credential minted by
\* GenerateAllTokens is accepted by POST /refresh and no refresh credential is
\* accepted by the middleware: both are answered 401.
C6_ClassSeparation ==
    /\ (resp.op = "refresh" /\ resp.cookie \in AccessTokens) => resp.status = 401
    /\ (resp.op = "protected" /\ resp.cookie \in RefreshTokens) => resp.status = 401

\* C7: POST /refresh without a refresh cookie, or with one that is malformed,
\* not signed with the refresh key or expired, is answered 401 with an error
\* body, sets no cookie and leaves the browser's cookies as they were.
C7_BadRefreshRejected ==
    [][(resp = Idle /\ resp'.op = "refresh"
            /\ BadCredential(resp'.cookie, SECRET_REFRESH_KEY))
       => /\ resp'.status = 401 /\ resp'.error # ""
          /\ resp'.setCookies = <<>>
          /\ jar' = jar]_vars

C7_Witness ==
    /\ resp.op = "refresh" /\ resp.status = 401
    /\ \E t \in RefreshTokens : resp.cookie = Tamper(t)
    /\ JarCookie("refresh_token") \in RefreshTokens

\* C8: a successful POST /refresh sets both cookies to a newly minted pair,
\* whose refresh credential differs from the one presented, and no refresh
\* credential is ever issued twice, by login or by refresh.
C8_NeverReissued ==
    /\ \A j, k \in 1..Len(issued) :
          j # k => issued[j].refreshToken # issued[k].refreshToken
    /\ (resp.op = "refresh" /\ resp.status = 200) =>
          /\ resp.pair.refreshToken # resp.cookie
          /\ Len(resp.setCookies) = 2
          /\ resp.setCookies[1].value = resp.pair.token
          /\ resp.setCookies[2].value = resp.pair.refreshToken

\* A response that issues a pair of cookies.
IssuesPair == resp.op \in {"login", "refresh"} /\ resp.status = 200

\* C14: every issuance of the pair, by login and by refresh, writes
\* access_token with MaxAge 86400 and refresh_token with MaxAge 604800, both
\* HttpOnly with Path "/", Secure and SameSite=None in production mode, not
\* Secure and SameSite=Lax in development mode.
C14_IssuedCookieAttributes ==
    IssuesPair =>
        /\ Len(resp.setCookies) = 2
        /\ resp.setCookies[1].name = "access_token"
        /\ resp.setCookies[1].maxAge = 86400
        /\ resp.setCookies[2].name = "refresh_token"
        /\ resp.setCookies[2].maxAge = 604800
        /\ \A k \in 1..2 :
              /\ resp.setCookies[k].httpOnly
              /\ resp.setCookies[k].path = "/"
              /\ resp.setCookies[k].secure = (ENV = "production")
              /\ resp.setCookies[k].sameSite =
                     IF ENV = "production" THEN "None" ELSE "Lax"

\* C15: in each mode the two cookies logout writes have the name, domain,
\* path, Secure and SameSite of the cookies written at issuance, by login or
\* by refresh, and after a logout the browser holds neither cookie.
C15_LogoutMatchesIssuance ==
    /\ IssuesPair =>
          \A k \in 1..2 :
              LET c == resp.setCookies[k]
                  d == LogoutCookies[k]
              IN  /\ d.maxAge = -1
                  /\ c.name = d.name /\ c.domain = d.domain /\ c.path = d.path
                  /\ c.secure = d.secure /\ c.sameSite = d.sameSite
    /\ resp.op = "logout" =>
          /\ JarCookie("access_token") = Missing
          /\ JarCookie("refresh_token") = Missing

\* C16: whether a credential is accepted is a function of the token and the
\* current time alone, whatever the user store holds: the middleware refuses
\* a request exactly when its access credential is not a correctly signed,
\* unexpired token, and POST /refresh answers 401 exactly when its refresh
\* credential is not one.
C16_StoreIndependent ==
    /\ resp.op = "protected" =>
          (resp.handler = "" <=> BadCredential(resp.cookie, SECRET_KEY))
    /\ resp.op = "refresh" =>
          (resp.status = 401 <=> BadCredential(resp.cookie, SECRET_REFRESH_KEY))

\* C16 as the code has it: the middleware's decision is a function of the
\* token and the current time alone; POST /refresh also looks the token's
\* user up in the user store, so it answers 401 for every bad credential and,
\* for a good one, exactly when that user is not found.
C16_RefreshConsultsUsers ==
    /\ resp.op = "protected" =>
          (resp.handler = "" <=> BadCredential(resp.cookie, SECRET_KEY))
    /\ resp.op = "refresh" =>
          /\ BadCredential(resp.cookie, SECRET_REFRESH_KEY)
                => resp.status = 401 /\ resp.error # "User not found"
          /\ ~BadCredential(resp.cookie, SECRET_REFRESH_KEY)
                => (resp.status = 401 <=> resp.error = "User not found")

C16_Witness ==
    /\ resp.op = "refresh" /\ resp.status = 401 /\ resp.error = "User not found"
    /\ resp.cookie \in RefreshTokens
    /\ ~BadCredential(resp.cookie, SECRET_REFRESH_KEY)

\* C17: login, refresh, logout and the middleware never write to the user
\* store: every user record is as registration left it, and no minted
\* credential is kept in it.
C17_UserStoreUntouched ==
    /\ users = Registered
    /\ \A u \in UserIds :
          /\ users[u].token \notin AccessTokens
          /\ users[u].refresh_token \notin RefreshTokens

C19_OnlyAdminUpdatesReview ==
    [][/\ movies' # movies =>
             /\ resp'.op = "protected" /\ resp'.handler = "AdminReviewUpdate"
             /\ resp'.role = "ADMIN" /\ resp'.cookie.role = "ADMIN"
             /\ ~BadCredential(resp'.cookie, SECRET_KEY)
             /\ resp'.status = 200
       /\ (resp = Idle /\ resp'.op = "protected"
              /\ resp'.handler = "AdminReviewUpdate" /\ resp'.role # "ADMIN")
          => /\ resp'.status = 401 /\ resp'.error = "Unauthorized access"
             /\ movies' = movies]_vars

C19_Witness ==
    /\ movies[ReviewedMovie] # Unreviewed
    /\ resp.op = "protected" /\ resp.handler = "AdminReviewUpdate"
    /\ resp.role = "USER" /\ resp.status = 401

\* C20: an access credential minted at issued_at is accepted by the
\* middleware up to issued_at + 23:59:59 and is rejected as expired at
\* issued_at + 24:00:01 and at every later time.
C20_AccessLifetime ==
    (resp.op = "protected" /\ resp.cookie \in AccessTokens) =>
        /\ now <= resp.cookie.iat + 86399 => resp.handler # ""
        /\ now >= resp.cookie.iat + 86401 =>
              /\ resp.handler = "" /\ resp.status = 401
              /\ resp.error = "token is expired"

C20_Witness ==
    /\ resp.op = "protected" /\ resp.cookie \in AccessTokens
    /\ now = resp.cookie.iat + 86399
    /\ resp.handler # "" /\ resp.status = 200

\* A POST /refresh that carried a refresh credential the server minted,
\* signed with the refresh key, whose expires_at is in the past.
ExpiredRefresh(r) ==
    /\ r.op = "refresh"
    /\ r.cookie \in RefreshTokens
    /\ Signed(r.cookie, SECRET_REFRESH_KEY)
    /\ r.cookie.exp < now

\* C23: POST /refresh with a correctly signed refresh credential whose
\* expires_at is in the past is answered 401 with the body
\* {error: "refresh token has expired"} and sets no cookie.
C23_ExpiredRefreshMessage ==
    ExpiredRefresh(resp) =>
        /\ resp.status = 401
        /\ resp.body = {"error"} /\ resp.error = "refresh token has expired"
        /\ resp.setCookies = <<>>

\* C23 as the code has it: the answer is 401 with the body
\* {error: "Invalid or expired refresh token"}, no cookie is set and the
\* browser's cookies, access_token included, are left as they were.
C23_ExpiredRefreshRejected ==
    [][(resp = Idle /\ ExpiredRefresh(resp'))
       => /\ resp'.status = 401
          /\ resp'.body = {"error"}
          /\ resp'.error = "Invalid or expired refresh token"
          /\ resp'.setCookies = <<>>
          /\ jar' = jar]_vars

C23_Witness ==
    /\ ExpiredRefresh(resp) /\ resp.cookie \in RefreshTokens
    /\ resp.status = 401 /\ resp.error = "Invalid or expired refresh token"
    /\ JarCookie("refresh_token") \in RefreshTokens

\* A JWT whose header names a signing method that is not an HMAC one.
NotHMAC(c) == c.kind = "jwt" /\ c.alg \notin HMACAlgs

\* C25: for every token a request presents, ValidateToken and
\* ValidateRefreshToken return an error when the token's signing method is not
\* an HMAC one, and never return neither claims nor an error; so the
\* middleware runs no handler for such a token and neither it nor POST
\* /refresh goes on without claims (which would end in the 500 of a nil
\* dereference).
C25_NoNilClaimsWithoutError ==
    /\ resp.op = "protected" =>
          LET v == ValidateToken(resp.cookie) IN
          /\ NotHMAC(resp.cookie) => (~v.nilErr /\ v.nilClaims)
          /\ ~(v.nilClaims /\ v.nilErr)
          /\ NotHMAC(resp.cookie) => (resp.status = 401 /\ resp.handler = "")
          /\ resp.status # 500
          /\ resp.handler # "" => (~v.nilClaims /\ resp.userID = v.claims.uid)
    /\ resp.op = "refresh" =>
          LET v == ValidateRefreshToken(resp.cookie) IN
          /\ NotHMAC(resp.cookie) => (~v.nilErr /\ v.nilClaims)
          /\ ~(v.nilClaims /\ v.nilErr)
          /\ NotHMAC(resp.cookie) => (resp.status = 401 /\ resp.setCookies = <<>>)
          /\ resp.error # "panic: nil pointer dereference"
          /\ resp.status = 200 => ~v.nilClaims

C25_Witness ==
    /\ resp.op = "protected" /\ resp.status = 401 /\ resp.handler = ""
    /\ resp.cookie.kind = "jwt" /\ resp.cookie.alg = "none"
    /\ \E t \in AccessTokens : resp.cookie = AlgNone(t) /\ now < t.exp

\* --- GenerateAllTokens ----------------------------------------------------
\* C21: every pair one call of GenerateAllTokens returns has the access
\* credential expiring exactly 24 hours and the refresh credential exactly
\* 7 days after its issued_at, and so the access credential expires strictly
\* before the refresh credential.
C21_ExpiryOffsets ==
    minted.called =>
        /\ minted.pair.token.exp = minted.pair.token.iat + 86400
        /\ minted.pair.refreshToken.exp = minted.pair.refreshToken.iat + 604800
        /\ minted.pair.token.exp < minted.pair.refreshToken.exp

\* C22: GenerateAllTokens fails exactly on missing key material: with both
\* SECRET_KEY and SECRET_REFRESH_KEY set it returns two signed credentials and
\* no error, and with one of them unset it returns an error and no credential.
C22_MintFailsOnMissingKey ==
    minted.called =>
        LET unset == SECRET_KEY = "" \/ SECRET_REFRESH_KEY = "" IN
        /\ ~unset =>
              /\ ~minted.pair.err
              /\ Signed(minted.pair.token, SECRET_KEY)
              /\ Signed(minted.pair.refreshToken, SECRET_REFRESH_KEY)
        /\ unset =>
              /\ minted.pair.err
              /\ minted.pair.token.kind # "jwt"
              /\ minted.pair.refreshToken.kind # "jwt"

\* C9 as stated: once a logout has been answered, a protected request that
\* carries an access credential issued before it is answered 401.
C9_LogoutRevokes ==
    (resp.op = "protected" /\ resp.cookie \in loggedOut) => resp.status = 401

\* C9 as the code has it: once a logout has been answered, a protected request
\* that carries an access credential issued before it is refused by the
\* middleware (401, no handler) exactly when that credential has expired;
\* until then it is admitted as before the logout.
C9_LogoutThenExpiry ==
    (resp.op = "protected" /\ resp.cookie \in loggedOut) =>
        /\ resp.handler = "" <=> ~(now < resp.cookie.exp)
        /\ resp.handler = "" => resp.status = 401

C9_Witness ==
    /\ resp.op = "protected" /\ resp.cookie \in loggedOut
    /\ resp.handler # "" /\ resp.status = 200
    /\ JarCookie("access_token") = Missing

====
